---- MODULE Spec2Model ----
(***************************************************************************)
(* A model of the MuseTalk operational scripts:                            *)
(*   musetalk_inference.py   - MuseTalkInference.create_config,            *)
(*                             MuseTalkInference.run_inference, main       *)
(*   download_models.py      - the model provisioner                       *)
(*   troubleshooting_fixes.py - the environment repair utility             *)
(*                                                                         *)
(* File names are modelled as sequences of tokens, e.g.                    *)
(* <<"b_", "temp", ".mp4">> for b_temp.mp4, so that Python's               *)
(* str.endswith and the substring test `x in s` are computed on the name   *)
(* and not assumed.  A full path is the concatenation of the tokens of     *)
(* its directories and of its file name (os.path.join).                    *)
(***************************************************************************)
EXTENDS Integers, Sequences, FiniteSets, TLC

VARIABLES
    \* ---- inference orchestrator (musetalk_inference.py) ----
    pc,            \* position inside run_inference
    inputFiles,    \* the input paths that exist on disk
    fs,            \* the output directory tree: path -> content
    config,        \* configs/inference/inference.yaml
    call,          \* the arguments of the current run_inference call
    pre,           \* fs and config as they were when the call started
    spawned,       \* whether subprocess.run started the inference process
    returncode,    \* exit code of the inference process
    output_files,  \* the list built by the os.walk scan
    target_file,   \* the file chosen for copying
    scanned,       \* the output directory tree as the os.walk scan saw it
    copied,        \* whether shutil.copy wrote output_path
    copy_error,    \* the exception shutil.copy raised, "none" if none
    result,        \* what run_inference returned
    calls,         \* how many calls of run_inference have been started
    \* ---- parameter merge (create_config / main) ----
    argv,          \* command line of musetalk_inference.main
    via,           \* which entry point produced params: "main" or "direct"
    kwargs,        \* keyword overrides handed to create_config
    params,        \* effective parameters returned by create_config
    \* ---- model provisioner (download_models.py) ----
    stage,         \* which function of download_models.main is running
    idx,           \* position in that function's list of artifacts
    files,         \* artifact path -> "absent", "partial" or "complete"
    files0,        \* files as they were when main started
    netCalls,      \* the network requests made so far
    attempted,     \* the artifacts download_file was called for
    failed,        \* the artifacts whose download_file returned False
    provResult,    \* what download_models.main returned
    provRuns,      \* how many times download_models.py has been started
    filesFirst,    \* files as they were before the first run
    completed,     \* the artifacts some download completed, over all runs
    skipped,       \* the artifacts this run skipped because they exist
    failedPrev,    \* the artifacts whose download failed in the run before
    \* ---- environment repair (troubleshooting_fixes.py) ----
    tree,          \* the directories that exist
    tree0,         \* the directories that existed before the first run
    treeAfterFirst,\* the directories after the first run
    repairRuns,    \* completed calls of create_missing_directories
    repairRaised,  \* whether a call raised
    \* ---- whisper alias repair (troubleshooting_fixes.fix_whisper_paths) ----
    aliasDirs,     \* the alias directories that exist
    aliasFiles,    \* <<alias directory, file name>> -> content
    aliasFiles0,   \* aliasFiles as it was before the call
    copyFailures,  \* the copies shutil.copy2 was called for and that raised
    fixed          \* whether fix_whisper_paths has run

inferVars == <<pc, inputFiles, fs, config, call, pre, spawned, returncode,
               output_files, target_file, scanned, copied, copy_error, result,
               calls>>
mergeVars == <<argv, via, kwargs, params>>
provHist == <<provRuns, filesFirst, completed, skipped, failedPrev>>
provVars == <<stage, idx, files, files0, netCalls, attempted, failed, provResult,
              provHist>>
repairVars == <<tree, tree0, treeAfterFirst, repairRuns, repairRaised>>
whisperVars == <<aliasDirs, aliasFiles, aliasFiles0, copyFailures, fixed>>
vars == <<inferVars, mergeVars, provVars, repairVars, whisperVars>>

\* what the actions of one script leave alone
OnlyInference == UNCHANGED <<mergeVars, provVars, repairVars, whisperVars>>
OnlyMerge == UNCHANGED <<inferVars, provVars, repairVars, whisperVars>>
OnlyProvision == UNCHANGED <<inferVars, mergeVars, repairVars, whisperVars>>
OnlyRepair == UNCHANGED <<inferVars, mergeVars, provVars, whisperVars>>
OnlyWhisper == UNCHANGED <<inferVars, mergeVars, provVars, repairVars>>

(***************************************************************************)
(* Bounds of the model.                                                    *)
(***************************************************************************)
\* how many files the output directory holds before the call
MaxOld == 1
\* how many files one run of the inference process writes
MaxProduced == 2

(***************************************************************************)
(* Strings as token sequences.                                             *)
(***************************************************************************)
\* Python `tok in s`
Contains(s, tok) == \E i \in 1..Len(s) : s[i] = tok

\* Python s.endswith(suffix)
EndsWith(s, suffix) == Len(s) > 0 /\ s[Len(s)] = suffix

\* Python s.endswith((".mp4", ".avi"))
EndsWithAny(s, suffixes) == \E x \in suffixes : EndsWith(s, x)

RECURSIVE SeqsOf(_)
\* all orderings of a finite set, as sequences
SeqsOf(S) ==
    IF S = {} THEN {<< >>}
    ELSE UNION { { <<x>> \o t : t \in SeqsOf(S \ {x}) } : x \in S }

(***************************************************************************)
(* Parameter merge: MuseTalkInference.__init__ and create_config.          *)
(***************************************************************************)
default_params ==
    [bbox_shift |-> 0, batch_size |-> 4, fps |-> 25,
     version |-> "v15", expression_scale |-> "1.0"]

ParamKeys == DOMAIN default_params

\* MergeParams with a fault: {**kwargs, **defaults}, the defaults win
MergeParams_defaultsWin(defaults, overrides) ==
    [k \in (DOMAIN defaults) \cup (DOMAIN overrides) |->
        IF k \in DOMAIN defaults THEN defaults[k] ELSE overrides[k]]

\* {**defaults, **overrides}
MergeParams(defaults, overrides) ==
    [k \in (DOMAIN defaults) \cup (DOMAIN overrides) |->
        IF k \in DOMAIN overrides THEN overrides[k] ELSE defaults[k]]

result_name == <<"lipsync_output", ".mp4">>

create_config(video_path, audio_path, kw) ==
    LET p == MergeParams(default_params, kw)
    IN  [config |-> [task1 |-> [video_path  |-> video_path,
                                audio_path  |-> audio_path,
                                bbox_shift  |-> p["bbox_shift"],
                                result_name |-> result_name]],
         params |-> p]

(***************************************************************************)
(* musetalk_inference.main: argparse defaults, presets, keyword arguments. *)
(***************************************************************************)
ArgDefaults ==
    [bbox_shift |-> 0, batch_size |-> 4, fps |-> 25,
     natural |-> FALSE, subtle |-> FALSE]

\* parser.parse_args(): a flag absent from the command line takes its default
parse_args(av) ==
    [k \in DOMAIN ArgDefaults |-> IF k \in DOMAIN av THEN av[k] ELSE ArgDefaults[k]]

\* "Apply presets"
ApplyPresets(args) ==
    IF args.natural THEN [args EXCEPT !.bbox_shift = -3]
    ELSE IF args.subtle THEN [args EXCEPT !.bbox_shift = -5]
    ELSE args

\* the keyword arguments main hands to run_inference
MainKwargs(av) ==
    LET args == ApplyPresets(parse_args(av))
    IN  [bbox_shift |-> args.bbox_shift,
         batch_size |-> args.batch_size,
         fps        |-> args.fps]

\* restriction of a function to a subset of its domain
Restrict(f, D) == [k \in D \cap DOMAIN f |-> f[k]]

\* command lines: any subset of the flags, each with a value
ArgvSet ==
    { Restrict(full, D) :
        full \in [bbox_shift : {-7, 0, 2}, batch_size : {4, 8}, fps : {25, 30},
                  natural : {TRUE}, subtle : {TRUE}],
        D \in SUBSET DOMAIN ArgDefaults }

\* keyword overrides of a direct create_config call: any subset of the keys
KwargsSet ==
    { Restrict(full, D) :
        full \in [bbox_shift : {-3, 1}, batch_size : {4, 8}, fps : {30},
                  version : {"v1"}, expression_scale : {"0.5"}],
        D \in SUBSET ParamKeys }

NoParams == << >>

InitMerge ==
    /\ argv \in ArgvSet
    /\ kwargs \in KwargsSet
    /\ via = "none"
    /\ params = NoParams

\* main() up to the merge inside run_inference (lines 162-184, then 56)
MainMerge ==
    /\ via = "none"
    /\ via' = "main"
    /\ kwargs' = MainKwargs(argv)
    /\ params' = create_config("v", "a", MainKwargs(argv)).params
    /\ UNCHANGED argv
    /\ OnlyMerge

\* a direct call create_config(video, audio, **kwargs)
CreateConfig ==
    /\ via = "none"
    /\ via' = "direct"
    /\ params' = create_config("v", "a", kwargs).params
    /\ UNCHANGED <<argv, kwargs>>
    /\ OnlyMerge

(***************************************************************************)
(* The output directory of run_inference.                                  *)
(* A path is <<directory, file name>>, the directory relative to           *)
(* output_dir = os.path.dirname(output_path).                              *)
(***************************************************************************)
output_dir == <<"/app/output">>

TopDir == << >>
SubDirs == { <<"v15">>, <<"task1">> }

TopNames ==
    { <<"result", ".mp4">>, <<"b_", "temp", ".mp4">>, <<"lipsync_output", ".mp4">>,
      <<"result", ".avi">>, <<"result", ".mkv">> }

\* the files the model follows: five names directly in the output directory,
\* the result file in the version subdirectory, one file in a subdirectory
\* called task1
Paths ==
    ({TopDir} \X TopNames)
        \cup { << <<"v15">>, <<"lipsync_output", ".mp4">> >>,
               << <<"task1">>, <<"result", ".mp4">> >> }

\* the file names --output may carry (its directory is output_dir)
OutNames == { <<"result", ".mp4">>, <<"result", ".avi">>, <<"result", ".mkv">> }

\* os.path.join(root, file), with root below output_dir
FullPath(p) == output_dir \o p[1] \o p[2]

Absent == "absent"
Present(f, p) == f[p] # Absent

SubsetsUpTo(S, n) == { T \in SUBSET S : Cardinality(T) <= n }

VideoPath == "input/video.mp4"
AudioPath == "input/audio.wav"

NoDoc == [task1 |-> [video_path |-> "", audio_path |-> "", bbox_shift |-> 0,
                     result_name |-> << >>]]
StaleDoc == [task1 |-> [video_path |-> "input/earlier.mp4",
                        audio_path |-> "input/earlier.wav",
                        bbox_shift |-> 0, result_name |-> result_name]]
NoCall == [output_name |-> << >>, kwargs |-> << >>]
NoPath == << << >>, << >> >>

\* the keyword arguments of the modelled calls
CallKwargs == { Restrict([bbox_shift |-> -3], D) : D \in SUBSET {"bbox_shift"} }

InitInference ==
    /\ pc = "idle"
    /\ inputFiles \in SUBSET {VideoPath, AudioPath}
    /\ \E S \in SubsetsUpTo(Paths, MaxOld) :
          fs = [p \in Paths |-> IF p \in S THEN "old" ELSE Absent]
    /\ config \in { [exists |-> FALSE, doc |-> NoDoc],
                    [exists |-> TRUE, doc |-> StaleDoc] }
    /\ call = NoCall
    /\ pre = [fs |-> fs, config |-> config]
    /\ spawned = FALSE
    /\ returncode = 0
    /\ output_files = << >>
    /\ target_file = NoPath
    /\ scanned = fs
    /\ copied = FALSE
    /\ copy_error = "none"
    /\ result = "none"
    /\ calls = 1

\* output_path of the current call
OutputPath == <<TopDir, call.output_name>>

(***************************************************************************)
(* run_inference, lines 47-69: validate inputs, create and save config.    *)
(***************************************************************************)
\* InputsExist with a fault: the audio path is not checked
InputsExist_videoOnly(video_path, audio_path) ==
    video_path \in inputFiles

\* os.path.exists(video_path) and os.path.exists(audio_path)
InputsExist(video_path, audio_path) ==
    /\ video_path \in inputFiles
    /\ audio_path \in inputFiles

\* lines 47-53: an absent input returns False at once
CallRejected ==
    /\ pc = "idle"
    /\ ~InputsExist(VideoPath, AudioPath)
    /\ \E o \in OutNames, kw \in CallKwargs :
          call' = [output_name |-> o, kwargs |-> kw]
    /\ pre' = [fs |-> fs, config |-> config]
    /\ result' = "False"
    /\ pc' = "done"
    /\ UNCHANGED <<calls, inputFiles, fs, config, spawned, returncode, output_files,
                 target_file, copied, scanned, copy_error>>
    /\ OnlyInference

\* lines 47-56: both inputs exist, the call goes on to save the config
CallAccepted ==
    /\ pc = "idle"
    /\ InputsExist(VideoPath, AudioPath)
    /\ \E o \in OutNames, kw \in CallKwargs :
          call' = [output_name |-> o, kwargs |-> kw]
    /\ pre' = [fs |-> fs, config |-> config]
    /\ pc' = "save"
    /\ UNCHANGED <<calls, inputFiles, fs, config, spawned, returncode, output_files,
                 target_file, copied, result, scanned, copy_error>>
    /\ OnlyInference

\* lines 65-69: os.makedirs and OmegaConf.save succeed
SaveConfig ==
    /\ pc = "save"
    /\ config' = [exists |-> TRUE,
                  doc |-> create_config(VideoPath, AudioPath, call.kwargs).config]
    /\ pc' = "clean"
    /\ UNCHANGED <<calls, inputFiles, fs, call, pre, spawned, returncode,
                 output_files, target_file, copied, result, scanned,
                 copy_error>>
    /\ OnlyInference

\* lines 65-69: os.makedirs or OmegaConf.save raises (read-only or full disk);
\* the statements stand before the try of line 85, so the exception leaves
\* run_inference
SaveConfigRaises ==
    /\ pc = "save"
    /\ result' = "Raised"
    /\ pc' = "done"
    /\ UNCHANGED <<calls, inputFiles, fs, config, call, pre, spawned, returncode,
                 output_files, target_file, copied, scanned, copy_error>>
    /\ OnlyInference

(***************************************************************************)
(* run_inference, lines 85-93: clean old outputs.                          *)
(***************************************************************************)
\* ShouldClean with a fault: every media file is removed, .avi included
ShouldClean_anyMedia(f) ==
    EndsWithAny(f, {".mp4", ".avi"}) /\ ~Contains(f, "temp")

\* f.endswith(".mp4") and "temp" not in f
ShouldClean(f) ==
    EndsWith(f, ".mp4") /\ ~Contains(f, "temp")

\* os.listdir(output_dir): the names directly in the output directory
ListDir(f) == { p \in Paths : p[1] = TopDir /\ Present(f, p) }

\* lines 86-93: each matching file is removed; a failing os.remove is swallowed
CleanOldOutputs ==
    /\ pc = "clean"
    /\ \E failing \in SUBSET { p \in ListDir(fs) : ShouldClean(p[2]) } :
          fs' = [p \in Paths |->
                    IF p \in ListDir(fs) /\ ShouldClean(p[2]) /\ p \notin failing
                    THEN Absent ELSE fs[p]]
    /\ pc' = "run"
    /\ UNCHANGED <<calls, inputFiles, config, call, pre, spawned, returncode,
                 output_files, target_file, copied, result, scanned,
                 copy_error>>
    /\ OnlyInference

\* line 88: os.listdir raises (the directory is missing or unreadable);
\* caught by the except of line 138
CleanRaises ==
    /\ pc = "clean"
    /\ result' = "False"
    /\ pc' = "done"
    /\ UNCHANGED <<calls, inputFiles, fs, config, call, pre, spawned, returncode,
                 output_files, target_file, copied, scanned, copy_error>>
    /\ OnlyInference

(***************************************************************************)
(* run_inference, lines 95-104: the inference subprocess.                  *)
(***************************************************************************)
ExitCodes == {0, 1}

\* line 96: the process runs to its end.  It writes at most MaxProduced files
\* below the result directory (never output_path itself, which it is not told)
\* and exits with any code.
RunSubprocess ==
    /\ pc = "run"
    /\ \E W \in SubsetsUpTo(Paths \ {OutputPath}, MaxProduced), rc \in ExitCodes :
          /\ fs' = [p \in Paths |-> IF p \in W THEN "new" ELSE fs[p]]
          /\ returncode' = rc
    /\ spawned' = TRUE
    /\ pc' = "scan"
    /\ UNCHANGED <<calls, inputFiles, config, call, pre, output_files, target_file,
                 copied, result, scanned, copy_error>>
    /\ OnlyInference

\* line 96: subprocess.run raises OSError (no interpreter, no /app);
\* caught by the except of line 138
SubprocessRaises ==
    /\ pc = "run"
    /\ result' = "False"
    /\ pc' = "done"
    /\ UNCHANGED <<calls, inputFiles, fs, config, call, pre, spawned, returncode,
                 output_files, target_file, copied, scanned, copy_error>>
    /\ OnlyInference

(***************************************************************************)
(* run_inference, lines 106-136: find the generated files, copy one.       *)
(***************************************************************************)
\* file.endswith((".mp4", ".avi")) and "temp" not in file
IsCandidate(file) ==
    EndsWithAny(file, {".mp4", ".avi"}) /\ ~Contains(file, "temp")

\* the orders in which os.walk can deliver the files: the directory itself
\* first, then each subdirectory as a block; the order of the entries of one
\* directory is the file system's
WalkOrders(f) ==
    LET found == { p \in Paths : Present(f, p) /\ IsCandidate(p[2]) }
    IN  { s \in SeqsOf(found) :
            /\ \A i, j \in 1..Len(s) :
                  (i < j /\ s[j][1] = TopDir) => s[i][1] = TopDir
            /\ \A i, j, k \in 1..Len(s) :
                  (i < j /\ j < k /\ s[i][1] = s[k][1]) => s[j][1] = s[i][1] }

\* "lipsync_output" in f or "task1" in f, f a full path
IsMarked(f) == Contains(f, "lipsync_output") \/ Contains(f, "task1")

\* lines 116-120: the first marked entry, else the first entry
SelectTarget(listed) ==
    LET marked == { i \in 1..Len(listed) : IsMarked(FullPath(listed[i])) }
    IN  IF marked = {} THEN listed[1]
        ELSE listed[CHOOSE i \in marked : \A j \in marked : i <= j]

\* HasOutput with a fault: a non-zero exit code counts as no output
HasOutput_exitCode(listed) == listed # << >> /\ returncode = 0

\* line 114: `if output_files:`
HasOutput(listed) == listed # << >>

\* lines 106-120: the scan finds files and one is chosen
ScanFound ==
    /\ pc = "scan"
    /\ \E s \in WalkOrders(fs) :
          /\ HasOutput(s)
          /\ output_files' = s
          /\ target_file' = SelectTarget(s)
    /\ scanned' = fs
    /\ pc' = "copy"
    /\ UNCHANGED <<calls, inputFiles, fs, config, call, pre, spawned, returncode,
                 copied, result, copy_error>>
    /\ OnlyInference

\* lines 106-114, 134-136: the scan finds nothing (to the code's eyes)
ScanEmpty ==
    /\ pc = "scan"
    /\ \E s \in WalkOrders(fs) :
          /\ ~HasOutput(s)
          /\ output_files' = s
    /\ scanned' = fs
    /\ result' = "False"
    /\ pc' = "done"
    /\ UNCHANGED <<calls, inputFiles, fs, config, call, pre, spawned, returncode,
                 target_file, copied, copy_error>>
    /\ OnlyInference

\* lines 122-133: shutil.copy(target_file, output_path) succeeds
Copy ==
    /\ pc = "copy"
    /\ target_file # OutputPath
    /\ fs' = [fs EXCEPT ![OutputPath] = fs[target_file]]
    /\ copied' = TRUE
    /\ copy_error' = "none"
    /\ result' = "True"
    /\ pc' = "done"
    /\ UNCHANGED <<calls, inputFiles, config, call, pre, spawned, returncode,
                 output_files, target_file, scanned>>
    /\ OnlyInference

\* line 124: the chosen file is output_path itself, shutil.copy raises
\* SameFileError; caught by the except of line 138
CopySameFile ==
    /\ pc = "copy"
    /\ target_file = OutputPath
    /\ copy_error' = "SameFileError"
    /\ result' = "False"
    /\ pc' = "done"
    /\ UNCHANGED <<calls, inputFiles, fs, config, call, pre, spawned, returncode,
                 output_files, target_file, copied, scanned>>
    /\ OnlyInference

\* line 124: shutil.copy raises OSError, before or while writing output_path;
\* caught by the except of line 138
CopyRaises ==
    /\ pc = "copy"
    /\ target_file # OutputPath
    /\ \E c \in {fs[OutputPath], "partial"} : fs' = [fs EXCEPT ![OutputPath] = c]
    /\ copy_error' = "OSError"
    /\ result' = "False"
    /\ pc' = "done"
    /\ UNCHANGED <<calls, inputFiles, config, call, pre, spawned, returncode,
                 output_files, target_file, copied, scanned>>
    /\ OnlyInference

(***************************************************************************)
(* run_inference called again on the same output directory.                *)
(***************************************************************************)
\* how many calls of run_inference are made on the same output directory
MaxCalls == 2

\* what the earlier calls left is old to the next call
Aged(f) == [p \in Paths |-> IF Present(f, p) THEN "old" ELSE Absent]

\* lines 40-46: the call has returned and run_inference is entered again;
\* the output directory and the config file are as the earlier call left them
CallAgain ==
    /\ pc = "done"
    /\ calls < MaxCalls
    /\ pc' = "idle"
    /\ fs' = Aged(fs)
    /\ call' = NoCall
    /\ pre' = [fs |-> fs', config |-> config]
    /\ spawned' = FALSE
    /\ returncode' = 0
    /\ output_files' = << >>
    /\ target_file' = NoPath
    /\ scanned' = fs'
    /\ copied' = FALSE
    /\ copy_error' = "none"
    /\ result' = "none"
    /\ calls' = calls + 1
    /\ UNCHANGED <<inputFiles, config>>
    /\ OnlyInference

(***************************************************************************)
(* download_models.py: the model provisioner.                              *)
(***************************************************************************)
\* how many artifacts are absent when main starts
MaxMissing == 2
\* how many times the script is run on the same directory
MaxProvisionRuns == 2

Range(q) == { q[i] : i \in 1..Len(q) }

\* manual_download_musetalk, lines 66-75, in the order of the dict
MuseTalkModels ==
    << "models/musetalkV15/musetalk.json", "models/musetalkV15/unet.pth" >>

\* download_other_models, lines 87-108
OtherModels ==
    << "models/dwpose/dw-ll_ucoco_384.pth",
       "models/face-parse-bisent/79999_iter.pth",
       "models/face-parse-bisent/resnet18-5c106cde.pth",
       "models/sd-vae/diffusion_pytorch_model.bin",
       "models/sd-vae/config.json" >>

\* setup_whisper_models, lines 127-135
WhisperFiles ==
    << "models/whisper/config.json",
       "models/whisper/preprocessor_config.json",
       "models/whisper/pytorch_model.bin" >>

\* main, lines 163-168
critical_files ==
    << "models/musetalkV15/unet.pth", "models/musetalkV15/musetalk.json",
       "models/whisper/config.json", "models/dwpose/dw-ll_ucoco_384.pth" >>

Artifacts == Range(MuseTalkModels) \cup Range(OtherModels) \cup Range(WhisperFiles)

\* the list the running function walks
StageList(st) ==
    CASE st = "manual"  -> MuseTalkModels
      [] st = "other"   -> OtherModels
      [] st = "whisper" -> WhisperFiles
      [] OTHER          -> << >>

\* os.path.exists(filepath): a file cut short by a failed transfer exists too
Exists(f, a) == f[a] # "absent"

InitProvision ==
    /\ stage = "hf_cli"
    /\ idx = 0
    /\ \E M \in SubsetsUpTo(Artifacts, MaxMissing) :
          files = [a \in Artifacts |-> IF a \in M THEN "absent" ELSE "complete"]
    /\ files0 = files
    /\ netCalls = {}
    /\ attempted = {}
    /\ failed = {}
    /\ provResult = "none"
    /\ provRuns = 1
    /\ filesFirst = files
    /\ completed = {}
    /\ skipped = {}
    /\ failedPrev = {}

\* the artifact the loop is at
Cur == StageList(stage)[idx]

InLoop == idx \in 1..Len(StageList(stage))

\* where the loop goes after the current artifact: the next one, or the
\* function main calls next (lines 154-160)
Advance ==
    IF idx < Len(StageList(stage))
    THEN /\ idx' = idx + 1
         /\ stage' = stage
    ELSE /\ stage' = CASE stage = "manual" -> "other"
                       [] stage = "other"  -> "whisper"
                       [] OTHER            -> "verify"
         /\ idx' = IF stage = "manual" THEN 1 ELSE 0

\* download_with_hf_cli, lines 40-54: pip install and hf download succeed;
\* the two MuseTalk 1.5 files are in place afterwards
HfCliSucceeds ==
    /\ stage = "hf_cli"
    /\ netCalls' = netCalls \cup {"hf_cli"}
    /\ files' = [a \in Artifacts |->
                    IF a \in Range(MuseTalkModels) THEN "complete" ELSE files[a]]
    /\ stage' = "other"
    /\ idx' = 1
    /\ UNCHANGED <<files0, attempted, failed, provResult>>
    /\ completed' = completed \cup Range(MuseTalkModels)
    /\ UNCHANGED <<provRuns, filesFirst, skipped, failedPrev>>
    /\ OnlyProvision

\* download_with_hf_cli, lines 55-57: one of the two commands fails; files the
\* bulk download finished before failing stay
HfCliFails ==
    /\ stage = "hf_cli"
    /\ netCalls' = netCalls \cup {"hf_cli"}
    /\ \E S \in SUBSET Range(MuseTalkModels) :
          /\ files' = [a \in Artifacts |-> IF a \in S THEN "complete" ELSE files[a]]
          /\ completed' = completed \cup S
    /\ stage' = "manual"
    /\ idx' = 0
    /\ UNCHANGED <<files0, attempted, failed, provResult>>
    /\ UNCHANGED <<provRuns, filesFirst, skipped, failedPrev>>
    /\ OnlyProvision

\* lines 64 and 124: os.makedirs at the head of manual_download_musetalk and
\* of setup_whisper_models succeeds
StageMakedirs ==
    /\ stage \in {"manual", "whisper"}
    /\ idx = 0
    /\ idx' = 1
    /\ UNCHANGED <<stage, files, files0, netCalls, attempted, failed, provResult>>
    /\ UNCHANGED provHist
    /\ OnlyProvision

\* lines 64 and 124: that os.makedirs raises; nothing catches it
StageMakedirsRaises ==
    /\ stage \in {"manual", "whisper"}
    /\ idx = 0
    /\ provResult' = "Raised"
    /\ stage' = "done"
    /\ UNCHANGED <<idx, files, files0, netCalls, attempted, failed>>
    /\ UNCHANGED provHist
    /\ OnlyProvision

\* lines 79, 113, 136: the file exists, download_file is not called
SkipExisting ==
    /\ InLoop
    /\ Exists(files, Cur)
    /\ Advance
    /\ UNCHANGED <<files, files0, netCalls, attempted, failed, provResult>>
    /\ skipped' = skipped \cup {Cur}
    /\ UNCHANGED <<provRuns, filesFirst, completed, failedPrev>>
    /\ OnlyProvision

\* download_file, lines 14-33: the transfer completes, True is returned
DownloadOk ==
    /\ InLoop
    /\ ~Exists(files, Cur)
    /\ netCalls' = netCalls \cup {Cur}
    /\ attempted' = attempted \cup {Cur}
    /\ files' = [files EXCEPT ![Cur] = "complete"]
    /\ Advance
    /\ UNCHANGED <<files0, failed, provResult>>
    /\ completed' = completed \cup {Cur}
    /\ UNCHANGED <<provRuns, filesFirst, skipped, failedPrev>>
    /\ OnlyProvision

\* download_file, lines 18-19, 34-36: requests.get or raise_for_status raises
\* before the file is opened; False is returned
DownloadFailsRequest ==
    /\ InLoop
    /\ ~Exists(files, Cur)
    /\ netCalls' = netCalls \cup {Cur}
    /\ attempted' = attempted \cup {Cur}
    /\ failed' = failed \cup {Cur}
    /\ Advance
    /\ UNCHANGED <<files, files0, provResult>>
    /\ UNCHANGED provHist
    /\ OnlyProvision

\* download_file, lines 24-28, 34-36: the connection or the disk fails after
\* open(filepath, 'wb'); the file stays, cut short; False is returned
DownloadFailsMidway ==
    /\ InLoop
    /\ ~Exists(files, Cur)
    /\ netCalls' = netCalls \cup {Cur}
    /\ attempted' = attempted \cup {Cur}
    /\ failed' = failed \cup {Cur}
    /\ files' = [files EXCEPT ![Cur] = "partial"]
    /\ Advance
    /\ UNCHANGED <<files0, provResult>>
    /\ UNCHANGED provHist
    /\ OnlyProvision

\* download_file, line 15: os.makedirs stands before the try and raises;
\* the exception leaves download_file, the calling loop and main
DownloadMakedirsRaises ==
    /\ InLoop
    /\ ~Exists(files, Cur)
    /\ attempted' = attempted \cup {Cur}
    /\ provResult' = "Raised"
    /\ stage' = "done"
    /\ UNCHANGED <<idx, files, files0, netCalls, failed>>
    /\ UNCHANGED provHist
    /\ OnlyProvision

\* main, lines 162-186: the result is whether every critical file exists
VerifyCriticalFiles ==
    /\ stage = "verify"
    /\ LET missing_files == { c \in Range(critical_files) : ~Exists(files, c) }
       IN  provResult' = IF missing_files # {} THEN "False" ELSE "True"
    /\ stage' = "done"
    /\ UNCHANGED <<idx, files, files0, netCalls, attempted, failed>>
    /\ UNCHANGED provHist
    /\ OnlyProvision

\* lines 188-190: the script is started again after an earlier run ended,
\* on the files that run left
RunAgain ==
    /\ stage = "done"
    /\ provRuns < MaxProvisionRuns
    /\ provRuns' = provRuns + 1
    /\ stage' = "hf_cli"
    /\ idx' = 0
    /\ files0' = files
    /\ netCalls' = {}
    /\ attempted' = {}
    /\ failedPrev' = failed
    /\ failed' = {}
    /\ skipped' = {}
    /\ provResult' = "none"
    /\ UNCHANGED <<files, filesFirst, completed>>
    /\ OnlyProvision

NextProvision ==
    \/ RunAgain
    \/ HfCliSucceeds \/ HfCliFails
    \/ StageMakedirs \/ StageMakedirsRaises
    \/ SkipExisting
    \/ DownloadOk \/ DownloadFailsRequest \/ DownloadFailsMidway
    \/ DownloadMakedirsRaises
    \/ VerifyCriticalFiles

(***************************************************************************)
(* troubleshooting_fixes.py: create_missing_directories.                   *)
(* A directory is the sequence of its path components; the tree is the set *)
(* of the directories that exist, closed under parents.                    *)
(***************************************************************************)
\* how many times create_missing_directories is run
MaxRepairRuns == 2

\* lines 54-65
directories ==
    << <<"models", "musetalk">>, <<"models", "musetalkV15">>,
       <<"models", "syncnet">>, <<"models", "dwpose">>,
       <<"models", "face-parse-bisent">>, <<"models", "sd-vae">>,
       <<"models", "whisper">>, <<"configs", "inference">>,
       <<"output">>, <<"input">> >>

\* directories of the same tree that create_missing_directories does not name
\* (fix_whisper_paths, lines 17-21)
OtherDirectories ==
    { <<"models", "whisper-tiny">>, <<"models", "openai">>,
      <<"models", "openai", "whisper-tiny">> }

\* a directory and all its ancestors
Prefixes(d) == { SubSeq(d, 1, n) : n \in 1..Len(d) }

DirUniverse == UNION { Prefixes(d) : d \in Range(directories) \cup OtherDirectories }

ParentClosed(t) == \A d \in t : Prefixes(d) \subseteq t

\* os.makedirs(d, exist_ok=...): creates d and its missing ancestors; raises
\* FileExistsError when d exists and exist_ok is false
makedirs(t, d, exist_ok) ==
    IF d \in t THEN [tree |-> t, raised |-> ~exist_ok]
    ELSE [tree |-> t \cup Prefixes(d), raised |-> FALSE]

\* EnsureDirectory with a fault: os.makedirs(directory) with no existence test
EnsureDirectory_noTest(t, d) == makedirs(t, d, FALSE)

\* lines 68-69: if not os.path.exists(directory): os.makedirs(directory, exist_ok=True)
EnsureDirectory(t, d) ==
    IF d \notin t THEN makedirs(t, d, TRUE) ELSE [tree |-> t, raised |-> FALSE]

RECURSIVE CreateFrom(_, _)
\* the loop of line 67 from its i-th directory on; an exception ends it
CreateFrom(t, i) ==
    IF i > Len(directories) THEN [tree |-> t, raised |-> FALSE]
    ELSE LET r == EnsureDirectory(t, directories[i])
         IN  IF r.raised THEN r ELSE CreateFrom(r.tree, i + 1)

create_missing_directories(t) == CreateFrom(t, 1)

InitRepair ==
    /\ tree \in { t \in SUBSET DirUniverse : ParentClosed(t) }
    /\ tree0 = tree
    /\ treeAfterFirst = tree
    /\ repairRuns = 0
    /\ repairRaised = FALSE

\* one call of create_missing_directories()
CreateMissingDirectories ==
    /\ repairRuns < MaxRepairRuns
    /\ ~repairRaised
    /\ LET r == create_missing_directories(tree)
       IN  /\ tree' = r.tree
           /\ repairRaised' = r.raised
           /\ treeAfterFirst' = IF repairRuns = 0 THEN r.tree ELSE treeAfterFirst
    /\ repairRuns' = repairRuns + 1
    /\ UNCHANGED tree0
    /\ OnlyRepair

NextRepair == CreateMissingDirectories

(***************************************************************************)
(* troubleshooting_fixes.py: fix_whisper_paths.                            *)
(* The content of a file is the alias directory it was first placed in, so *)
(* that a copy can be told from a file that was there before.              *)
(***************************************************************************)
\* how many of the copies shutil.copy2 is asked for may raise
MaxCopyFailures == 1

\* lines 17-21
paths_to_create ==
    << "models/whisper", "models/whisper-tiny", "models/openai/whisper-tiny" >>

\* lines 31-33, the file names of source_files in order
RequiredFiles == << "config.json", "preprocessor_config.json", "pytorch_model.bin" >>

AliasSlots == Range(paths_to_create) \X Range(RequiredFiles)

\* os.path.exists(os.path.join(d, n))
AliasExists(f, d, n) == f[<<d, n>>] # "absent"

\* lines 27-35: the index of the first directory that holds config.json,
\* 0 when none does (source_files stays empty)
SourceIndex(f) ==
    IF \E i \in 1..Len(paths_to_create) : AliasExists(f, paths_to_create[i], "config.json")
    THEN CHOOSE i \in 1..Len(paths_to_create) :
            /\ AliasExists(f, paths_to_create[i], "config.json")
            /\ \A j \in 1..(i - 1) : ~AliasExists(f, paths_to_create[j], "config.json")
    ELSE 0

\* the i-th pass of the nested loops of lines 38-39: target_path outside,
\* src_file inside
TargetAt(i) == paths_to_create[((i - 1) \div Len(RequiredFiles)) + 1]
FileAt(i) == RequiredFiles[((i - 1) % Len(RequiredFiles)) + 1]

RECURSIVE CopyLoop(_, _, _, _, _)
\* lines 38-48 from the i-th pass on: copy src to target when src exists and
\* the target file does not; `bad` are the copies at which shutil.copy2
\* raises, which the except of line 47 swallows
CopyLoop(f, src, bad, failures, i) ==
    IF i > Len(paths_to_create) * Len(RequiredFiles)
    THEN [files |-> f, failures |-> failures]
    ELSE LET t == TargetAt(i)
             n == FileAt(i)
         IN  IF AliasExists(f, src, n) /\ ~AliasExists(f, t, n)
             THEN IF <<t, n>> \in bad
                  THEN CopyLoop(f, src, bad, failures \cup {<<t, n>>}, i + 1)
                  ELSE CopyLoop([f EXCEPT ![<<t, n>>] = f[<<src, n>>]],
                                src, bad, failures, i + 1)
             ELSE CopyLoop(f, src, bad, failures, i + 1)

\* lines 26-48
fix_whisper_paths(f, bad) ==
    IF SourceIndex(f) = 0 THEN [files |-> f, failures |-> {}]
    ELSE CopyLoop(f, paths_to_create[SourceIndex(f)], bad, {}, 1)

\* every placement of the files in the alias directories; a directory that
\* holds a file exists
InitWhisper ==
    /\ \E P \in SUBSET AliasSlots :
          aliasFiles = [s \in AliasSlots |-> IF s \in P THEN s[1] ELSE "absent"]
    /\ aliasDirs \in SUBSET Range(paths_to_create)
    /\ \A s \in AliasSlots : aliasFiles[s] # "absent" => s[1] \in aliasDirs
    /\ aliasFiles0 = aliasFiles
    /\ copyFailures = {}
    /\ fixed = FALSE

\* one call of fix_whisper_paths(): lines 23-24 create the directories, then
\* the source is chosen and the copies are made
FixWhisperPaths ==
    /\ ~fixed
    /\ aliasDirs' = aliasDirs \cup Range(paths_to_create)
    /\ \E bad \in SubsetsUpTo(AliasSlots, MaxCopyFailures) :
          LET r == fix_whisper_paths(aliasFiles, bad)
          IN  /\ aliasFiles' = r.files
              /\ copyFailures' = r.failures
    /\ fixed' = TRUE
    /\ UNCHANGED aliasFiles0
    /\ OnlyWhisper

NextWhisper == FixWhisperPaths

(***************************************************************************)
(* Specifications: one per script; the state of the other scripts rests.   *)
(***************************************************************************)
InitInferenceIdle ==
    /\ pc = "off"
    /\ inputFiles = {}
    /\ fs = [p \in Paths |-> Absent]
    /\ config = [exists |-> FALSE, doc |-> NoDoc]
    /\ call = NoCall
    /\ pre = [fs |-> fs, config |-> config]
    /\ spawned = FALSE
    /\ returncode = 0
    /\ output_files = << >>
    /\ target_file = NoPath
    /\ scanned = fs
    /\ copied = FALSE
    /\ copy_error = "none"
    /\ result = "none"
    /\ calls = 0

InitMergeIdle ==
    /\ argv = << >>
    /\ via = "off"
    /\ kwargs = << >>
    /\ params = NoParams

InitProvisionIdle ==
    /\ stage = "off"
    /\ idx = 0
    /\ files = [a \in Artifacts |-> "absent"]
    /\ files0 = files
    /\ netCalls = {}
    /\ attempted = {}
    /\ failed = {}
    /\ provResult = "none"
    /\ provRuns = 0
    /\ filesFirst = files
    /\ completed = {}
    /\ skipped = {}
    /\ failedPrev = {}

InitRepairIdle ==
    /\ tree = {}
    /\ tree0 = {}
    /\ treeAfterFirst = {}
    /\ repairRuns = 0
    /\ repairRaised = FALSE

InitWhisperIdle ==
    /\ aliasDirs = {}
    /\ aliasFiles = [s \in AliasSlots |-> "absent"]
    /\ aliasFiles0 = aliasFiles
    /\ copyFailures = {}
    /\ fixed = FALSE

NextInference ==
    \/ CallRejected \/ CallAccepted
    \/ SaveConfig \/ SaveConfigRaises
    \/ CleanOldOutputs \/ CleanRaises
    \/ RunSubprocess \/ SubprocessRaises
    \/ ScanFound \/ ScanEmpty
    \/ Copy \/ CopySameFile \/ CopyRaises

\* run_inference called up to MaxCalls times on the same output directory
NextInferenceCalls ==
    \/ CallAgain
    \/ CallRejected \/ CallAccepted
    \/ SaveConfig \/ SaveConfigRaises
    \/ CleanOldOutputs \/ CleanRaises
    \/ RunSubprocess \/ SubprocessRaises
    \/ ScanFound \/ ScanEmpty
    \/ Copy \/ CopySameFile \/ CopyRaises

NextMerge == MainMerge \/ CreateConfig

InitInferenceSpec ==
    /\ InitInference /\ InitMergeIdle /\ InitProvisionIdle /\ InitRepairIdle
    /\ InitWhisperIdle

InitMergeSpec ==
    /\ InitMerge /\ InitInferenceIdle /\ InitProvisionIdle /\ InitRepairIdle
    /\ InitWhisperIdle

InitProvisionSpec ==
    /\ InitProvision /\ InitInferenceIdle /\ InitMergeIdle /\ InitRepairIdle
    /\ InitWhisperIdle

InitRepairSpec ==
    /\ InitRepair /\ InitInferenceIdle /\ InitMergeIdle /\ InitProvisionIdle
    /\ InitWhisperIdle

InitWhisperSpec ==
    /\ InitWhisper /\ InitInferenceIdle /\ InitMergeIdle /\ InitProvisionIdle
    /\ InitRepairIdle

SpecInference == InitInferenceSpec /\ [][NextInference]_vars

SpecInferenceCalls == InitInferenceSpec /\ [][NextInferenceCalls]_vars

SpecMerge == InitMergeSpec /\ [][NextMerge]_vars

SpecProvision == InitProvisionSpec /\ [][NextProvision]_vars

SpecRepair == InitRepairSpec /\ [][NextRepair]_vars

SpecWhisper == InitWhisperSpec /\ [][NextWhisper]_vars

(***************************************************************************)
(* Properties of run_inference.                                            *)
(***************************************************************************)
\* a media file by the words of the specification: .mp4 or .avi, no "temp"
IsMediaName(n) ==
    /\ Len(n) > 0
    /\ n[Len(n)] \in {".mp4", ".avi"}
    /\ \A i \in 1..Len(n) : n[i] # "temp"

\* the tree f holds a media file, at any depth
HoldsMedia(f) == \E p \in Paths : f[p] # "absent" /\ IsMediaName(p[2])

\* a file name that carries a result marker
NameIsMarked(n) ==
    \E i \in 1..Len(n) : n[i] \in {"lipsync_output", "task1"}

\* the call has returned after its subprocess ran and its scan was made
ReturnedAfterScan == pc = "done" /\ spawned

\* C1: when video_path or audio_path does not exist, run_inference returns
\* False before any side effect: inference.yaml is neither created nor
\* modified, no file of the output directory is deleted, and the subprocess
\* is never spawned.
C1_MissingInputNoSideEffect ==
    (VideoPath \notin inputFiles \/ AudioPath \notin inputFiles) =>
        /\ pc \in {"idle", "done"}
        /\ pc = "done" => result = "False"
        /\ config = pre.config
        /\ fs = pre.fs
        /\ ~spawned
        /\ ~copied

\* C1 witness: a call with the audio input missing has returned False although
\* the output directory holds a file the cleaning step would have removed
C1_Witness ==
    /\ pc = "done"
    /\ VideoPath \in inputFiles
    /\ AudioPath \notin inputFiles
    /\ result = "False"
    /\ config.exists
    /\ fs[<<TopDir, <<"result", ".mp4">> >>] = "old"

\* C2 (as claimed): when the result directory holds no media file after the
\* subprocess returned, run_inference returns False and the file at
\* output_path is untouched: same content if it existed, absent if it did not.
C2_OutputPathUntouched ==
    (ReturnedAfterScan /\ ~HoldsMedia(scanned)) =>
        /\ result = "False"
        /\ fs[OutputPath] = pre.fs[OutputPath]

\* C2 (amended): in that case run_inference returns False and never writes
\* output_path; a file that was at output_path before the call is left with
\* its content, except that one whose name ends in .mp4 and has no "temp" in
\* it has been deleted by the cleaning of old outputs.
C2_OutputPathNotWritten ==
    (ReturnedAfterScan /\ ~HoldsMedia(scanned)) =>
        /\ result = "False"
        /\ ~copied
        /\ LET n == call.output_name
           IN  IF n[Len(n)] = ".mp4" /\ (\A i \in 1..Len(n) : n[i] # "temp")
               THEN fs[OutputPath] = "absent"
               ELSE fs[OutputPath] = pre.fs[OutputPath]

\* C2 witness: the call returned False on an empty result directory, and the
\* earlier result.mp4 at output_path is gone
C2_Witness ==
    /\ ReturnedAfterScan
    /\ ~HoldsMedia(scanned)
    /\ result = "False"
    /\ call.output_name = <<"result", ".mp4">>
    /\ pre.fs[OutputPath] = "old"
    /\ fs[OutputPath] = "absent"

\* C3: the copied file never has "temp" in its name; when some candidate's
\* file name contains a result marker the copied file's name contains one;
\* only when no candidate's name contains a marker is the first discovered
\* candidate copied.
C3_CopiesMarkedName ==
    copied =>
        /\ \A i \in 1..Len(target_file[2]) : target_file[2][i] # "temp"
        /\ (\E i \in 1..Len(output_files) : NameIsMarked(output_files[i][2]))
              => NameIsMarked(target_file[2])
        /\ (\A i \in 1..Len(output_files) : ~NameIsMarked(output_files[i][2]))
              => target_file = output_files[1]

\* C4 (as claimed): with both inputs present, for every exit code the call
\* returns True exactly when the scan after the subprocess finds a media file.
C4_TrueIffArtifact ==
    ReturnedAfterScan =>
        /\ result \in {"True", "False"}
        /\ result = "True" <=> HoldsMedia(scanned)

\* C4 (amended): for every exit code the call returns False when the scan
\* finds no media file, and returns True exactly when it finds one and the
\* copy of the chosen file to output_path raises no exception.
C4_TrueIffArtifactCopied ==
    ReturnedAfterScan =>
        /\ result \in {"True", "False"}
        /\ ~HoldsMedia(scanned) => result = "False"
        /\ result = "True" <=> (HoldsMedia(scanned) /\ copy_error = "none")
        /\ result = "True" <=> copied

\* C4 witness: the process exited with code 1 and the call returned True
C4_Witness ==
    /\ ReturnedAfterScan
    /\ returncode = 1
    /\ HoldsMedia(scanned)
    /\ result = "True"

\* C8: no exception raised while saving the config, cleaning, running the
\* subprocess, scanning or copying leaves run_inference; each becomes a
\* returned False.
C8_NoExceptionEscapes ==
    pc = "done" => result \in {"True", "False"}

\* every os.remove of the cleaning succeeded: no file the cleaning deletes
\* was still there, with its earlier content, when the tree was scanned
CleaningRemovedAll ==
    \A p \in ListDir(scanned) : ShouldClean(p[2]) => scanned[p] # "old"

\* a later call returned True on a file that an earlier call's subprocess
\* run had produced and that the cleaning of the later call passed over
C13_StaleOutputReported ==
    /\ calls = 2
    /\ pc = "done"
    /\ result = "True"
    /\ CleaningRemovedAll
    /\ pre.fs = [p \in Paths |-> IF p = <<<<"task1">>, <<"result", ".mp4">>>>
                                  THEN "old" ELSE Absent]
    /\ scanned[target_file] = "old"

\* C13: over any sequence of calls on the same output directory, a call
\* that returns True copied a file its own subprocess run produced: no media
\* file an earlier run left in the tree is selected as this run's output
\* (the deletions of the cleaning all succeeding).
C13_OutputProducedByThisRun ==
    (pc = "done" /\ result = "True" /\ CleaningRemovedAll) =>
        /\ copied
        /\ scanned[target_file] = "new"

(***************************************************************************)
(* Properties of the parameter merge.                                      *)
(***************************************************************************)
\* C5: with no overrides the effective parameters are batch_size=4, fps=25,
\* bbox_shift=0; the "natural" preset gives bbox_shift=-3 and the "subtle"
\* preset -5, every other parameter keeping its default; for every key, an
\* override supplied by the caller replaces the default and a key that is not
\* overridden keeps its default.
C5_ParameterMerge ==
    LET d == [bbox_shift |-> 0, batch_size |-> 4, fps |-> 25,
              version |-> "v15", expression_scale |-> "1.0"]
        keys == {"bbox_shift", "batch_size", "fps", "version", "expression_scale"}
    IN  /\ via = "direct" =>
              /\ DOMAIN params = keys
              /\ \A k \in keys :
                    params[k] = IF k \in DOMAIN kwargs THEN kwargs[k] ELSE d[k]
        /\ (via = "direct" /\ DOMAIN kwargs = {}) => params = d
        /\ via = "main" =>
              /\ DOMAIN params = keys
              /\ DOMAIN argv = {} => params = d
              /\ DOMAIN argv = {"natural"} => params = [d EXCEPT !.bbox_shift = -3]
              /\ DOMAIN argv = {"subtle"} => params = [d EXCEPT !.bbox_shift = -5]
              /\ \A k \in {"batch_size", "fps"} :
                    params[k] = IF k \in DOMAIN argv THEN argv[k] ELSE d[k]
              /\ ("bbox_shift" \in DOMAIN argv /\ "natural" \notin DOMAIN argv
                     /\ "subtle" \notin DOMAIN argv)
                    => params.bbox_shift = argv.bbox_shift
              /\ params.version = "v15"
              /\ params.expression_scale = "1.0"

\* C5 witness: main was run with --natural alone and the merge gave -3
C5_Witness ==
    /\ via = "main"
    /\ DOMAIN argv = {"natural"}
    /\ params.bbox_shift = -3
    /\ params.batch_size = 4

(***************************************************************************)
(* Properties of the provisioner.                                          *)
(***************************************************************************)
\* C6: a run of download_models.main started where all critical files exist
\* makes no network call, neither the bulk retrieval nor a per-file download.
C6_NoNetworkWhenCriticalPresent ==
    (stage # "off" /\ \A i \in 1..Len(critical_files) :
                          files0[critical_files[i]] # "absent")
        => netCalls = {}

\* C7: download_models.main returns True exactly when every per-file download
\* attempted during the run succeeded, and False when any of them failed.
C7_SuccessIsConjunction ==
    (stage = "done" /\ provResult \in {"True", "False"}) =>
        (provResult = "True" <=> failed = {})

\* main ended by an exception that left download_file (the loop was at an
\* artifact when it ended)
RaisedInDownloadFile ==
    stage = "done" /\ provResult = "Raised" /\ idx >= 1

\* C9: every network or filesystem error met while fetching one artifact
\* becomes a False for that artifact, is never raised past main, and does not
\* abort the batch: every missing artifact of the fixed lists is still tried.
C9_ErrorsContained ==
    stage = "done" =>
        /\ ~RaisedInDownloadFile
        /\ provResult # "Raised" =>
              \A a \in Range(OtherModels) \cup Range(WhisperFiles) :
                  files0[a] = "absent" => a \in attempted

\* C12: over any sequence of provisioner runs, a file is present at an
\* artifact's path only if it was there before the first run or a download of
\* it completed, and no artifact whose download failed in the run before is
\* skipped by the existence check of this run while no download of it has
\* completed.
C12_RerunAfterPartialIsSafe ==
    /\ \A a \in Artifacts :
          Exists(files, a) => (Exists(filesFirst, a) \/ a \in completed)
    /\ \A a \in failedPrev : a \in skipped => a \in completed

\* the second half of C12 alone: an artifact that failed in the run before
\* has been skipped by this run although no download of it ever completed
C12_FailedThenSkipped ==
    \E a \in failedPrev : a \in skipped /\ a \notin completed

(***************************************************************************)
(* Properties of the repair utility.                                       *)
(***************************************************************************)
\* C10: running create_missing_directories again leaves the directory tree
\* as the first run left it and raises no error, for every initial tree and
\* any number of repeated runs.
C10_CreateDirectoriesIdempotent ==
    repairRuns >= 1 =>
        /\ ~repairRaised
        /\ tree = treeAfterFirst

\* C10 witness: the first run created directories, a second run has been made
C10_Witness ==
    /\ repairRuns = 2
    /\ ~repairRaised
    /\ tree0 # treeAfterFirst
    /\ <<"models", "openai">> \in tree0
    /\ tree = treeAfterFirst

(***************************************************************************)
(* Properties of fix_whisper_paths.                                        *)
(***************************************************************************)
\* an alias directory that holds the three required files
HoldsAll(f, d) == \A n \in Range(RequiredFiles) : AliasExists(f, d, n)

\* C11: whenever at least one alias directory held all three required files
\* before the call and no copy failed, every alias directory holds all
\* three files after the call.
C11_AliasesCompleted ==
    ( /\ fixed
      /\ copyFailures = {}
      /\ \E d \in Range(paths_to_create) : HoldsAll(aliasFiles0, d) )
    => \A d \in Range(paths_to_create) : HoldsAll(aliasFiles, d)

====
